---------------------------- MODULE Spec2Model ----------------------------
(***************************************************************************)
(* JIVA groundwater chatbot (app.py): the start-up load of the INGRES      *)
(* workbook, the FAQ matcher, the data lookup and the /chat endpoint.      *)
(*                                                                         *)
(* Text is a sequence of one-character strings, so that substring          *)
(* containment, word boundaries, lower() and title() are computed on the   *)
(* characters as Python computes them.                                     *)
(***************************************************************************)
EXTENDS Integers, Sequences, FiniteSets, TLC

VARIABLES
    pc,                 \* "import": app.py is being imported; "serving": Flask serves
    workbook,           \* the file INGRES DATABASE.xlsx as found on disk (environment)
    ingres_data_dict,   \* app.py:47  year label -> DataFrame, in insertion order
    data_loaded,        \* app.py:48
    LOADED_YEARS,       \* app.py:49
    YEAR_REGEX_PATTERN, \* app.py:50  the alternatives of \b(y1|y2|...)\b
    DEFAULT_YEAR,       \* app.py:51
    inflight,           \* requests that entered chat() and sleep in time.sleep(0.5)
    last                \* the request chat() completed last, with its outcome

globals == <<ingres_data_dict, data_loaded, LOADED_YEARS, YEAR_REGEX_PATTERN, DEFAULT_YEAR>>
vars == <<pc, workbook, ingres_data_dict, data_loaded, LOADED_YEARS,
          YEAR_REGEX_PATTERN, DEFAULT_YEAR, inflight, last>>

(***************************************************************************)
(* Bounds of the model.                                                    *)
(***************************************************************************)
\* Most requests that are inside chat() at the same time.
MaxInFlight == 1

(***************************************************************************)
(* Python str operations on character sequences.                           *)
(***************************************************************************)
UpperCase == <<"A", "B", "C", "D", "E", "F", "G", "H", "I", "J", "K", "L", "M", "N", "O", "P", "Q", "R", "S", "T", "U", "V", "W", "X", "Y", "Z">>
LowerCase == <<"a", "b", "c", "d", "e", "f", "g", "h", "i", "j", "k", "l", "m", "n", "o", "p", "q", "r", "s", "t", "u", "v", "w", "x", "y", "z">>
Digits == <<"0", "1", "2", "3", "4", "5", "6", "7", "8", "9">>

Range(s) == {s[i] : i \in 1..Len(s)}

IndexIn(c, s) == IF c \in Range(s) THEN CHOOSE i \in 1..Len(s) : s[i] = c ELSE 0

Letters == Range(UpperCase) \cup Range(LowerCase)

\* The characters of the regex class \w.
WordChars == Letters \cup Range(Digits) \cup {"_"}

IsAlpha(c) == c \in Letters

IsWordChar(c) == c \in WordChars

\* A character str.strip() removes.
IsSpace(c) == c \in {" ", "\t", "\n"}

\* The lower-case letter of every upper-case letter, and the other way round.
LowerOf == [c \in Range(UpperCase) |-> LowerCase[IndexIn(c, UpperCase)]]
UpperOf == [c \in Range(LowerCase) |-> UpperCase[IndexIn(c, LowerCase)]]

lower_char(c) == IF c \in DOMAIN LowerOf THEN LowerOf[c] ELSE c

upper_char(c) == IF c \in DOMAIN UpperOf THEN UpperOf[c] ELSE c

\* str.lower()
lower(s) == [i \in 1..Len(s) |-> lower_char(s[i])]

\* str.title(): a letter after a non-letter is upper-cased, every other letter lower-cased.
title(s) ==
    [i \in 1..Len(s) |->
        IF i = 1 \/ ~IsAlpha(s[i - 1]) THEN upper_char(s[i]) ELSE lower_char(s[i])]

\* str.strip(): the text from its first to its last character that is no blank.
strip(s) ==
    LET solid == {i \in 1..Len(s) : ~IsSpace(s[i])}
    IN IF solid = {} THEN <<>>
       ELSE SubSeq(s, CHOOSE i \in solid : \A j \in solid : i <= j,
                      CHOOSE i \in solid : \A j \in solid : j <= i)

\* s.replace(" ", "")
remove_spaces(s) == SelectSeq(s, LAMBDA c : c # " ")

\* Whether sub occurs in s at position i.
occurs_at(sub, s, i) ==
    /\ i >= 1
    /\ i + Len(sub) - 1 <= Len(s)
    /\ SubSeq(s, i, i + Len(sub) - 1) = sub

\* Python's `sub in s` on strings.
str_in(sub, s) == \E i \in 1..(Len(s) - Len(sub) + 1) : occurs_at(sub, s, i)

\* The regex assertion \b between s[i-1] and s[i] (i in 1..Len(s)+1).
word_boundary(s, i) ==
    LET before == i > 1 /\ IsWordChar(s[i - 1])
        after == i <= Len(s) /\ IsWordChar(s[i])
    IN before # after

\* Whether \b<word>\b matches in s starting at position i, ignoring case when ci.
regex_word_at(word, s, i, ci) ==
    /\ IF ci THEN occurs_at(lower(word), lower(s), i) ELSE occurs_at(word, s, i)
    /\ word_boundary(s, i)
    /\ word_boundary(s, i + Len(word))

\* The sum of the first n elements of a sequence of integers.
RECURSIVE sum_upto(_, _)
sum_upto(s, n) == IF n = 0 THEN 0 ELSE s[n] + sum_upto(s, n - 1)

\* Series.sum() on the numbers kept.
seq_sum(s) == sum_upto(s, Len(s))

\* Series.unique(): the distinct elements of s in order of first appearance.
unique(s) ==
    LET firsts == SelectSeq([i \in 1..Len(s) |-> i],
                            LAMBDA i : \A j \in 1..(i - 1) : s[j] # s[i])
    IN [k \in 1..Len(firsts) |-> s[firsts[k]]]

\* next((x for x in s if test(x)), None), passes[i] telling whether s[i] passes the
\* test: the first element that passes, as a one-element sequence, or <<>> for None.
first_match(s, passes) ==
    LET hits == {i \in 1..Len(s) : passes[i]}
    IN IF hits = {} THEN <<>> ELSE <<s[CHOOSE i \in hits : \A j \in hits : i <= j]>>

\* Whether sorted(s, key=len, reverse=True) puts s[i] before s[j]: the longer
\* first, and equal lengths in their order in s (the sort is stable).
sorts_before(s, i, j) == Len(s[i]) > Len(s[j]) \/ (Len(s[i]) = Len(s[j]) /\ i < j)

\* next((x for x in sorted(s, key=len, reverse=True) if test(x)), None), passes[i]
\* telling whether s[i] passes the test: of the elements that pass, the one the
\* sort puts first.
first_match_longest(s, passes) ==
    LET hits == {i \in 1..Len(s) : passes[i]}
    IN IF hits = {} THEN <<>>
       ELSE <<s[CHOOSE i \in hits : \A j \in hits \ {i} : sorts_before(s, i, j)]>>

(***************************************************************************)
(* Spreadsheet cells and DataFrames.  A cell is a string, a number or NaN  *)
(* (an empty cell).  Extraction volumes are whole Ham; a percentage cell   *)
(* holds the fraction in units of 1/10000 (0.10 is 1000).                  *)
(***************************************************************************)
Str(s) == [t |-> "str", s |-> s, n |-> 0]
Num(n) == [t |-> "num", s |-> <<>>, n |-> n]
NaN == [t |-> "nan", s |-> <<>>, n |-> 0]

\* str(n) for a natural number.
RECURSIVE int_to_str(_)
int_to_str(n) ==
    IF n < 10 THEN <<Digits[n + 1]>> ELSE int_to_str(n \div 10) \o <<Digits[(n % 10) + 1]>>

\* int(s) for a string of decimal digits.
RECURSIVE str_to_int(_)
str_to_int(s) ==
    IF s = <<>> THEN 0
    ELSE 10 * str_to_int(SubSeq(s, 1, Len(s) - 1)) + (IndexIn(s[Len(s)], Digits) - 1)

\* Series.astype(str) on one cell: NaN becomes the text "nan".
astype_str(cell) ==
    CASE cell.t = "str" -> cell.s
      [] cell.t = "num" -> int_to_str(cell.n)
      [] OTHER -> <<"n", "a", "n">>

\* pd.to_numeric(errors='coerce') on one cell: text that is no number becomes NaN.
to_numeric(cell) ==
    CASE cell.t = "num" -> cell
      [] cell.t = "str" /\ cell.s # <<>> /\ Range(cell.s) \subseteq Range(Digits) ->
            Num(str_to_int(cell.s))
      [] OTHER -> NaN

\* The position of a column name in df.columns, 0 when absent.
column_index(df, name) == IndexIn(name, df.columns)

\* df[name] (or df.get(name)) as the sequence of the column's cells.
column(df, name) == [r \in 1..Len(df.rows) |-> df.rows[r][column_index(df, name)]]

(***************************************************************************)
(* 1. Configuration (app.py:16-44).                                        *)
(***************************************************************************)
normalize_column_name(col_name) == remove_spaces(strip(col_name))

DATA_SHEET_NAMES == <<<<"2", "0", "2", "5">>, <<"2", "0", "2", "4">>, <<"2", "0", "2", "3">>, <<"2", "0", "2", "2">>, <<"2", "0", "2", "0">>>>

COL_STATE_RAW == <<"S", "t", "a", "t", "e">>
COL_DISTRICT_RAW == <<"D", "i", "s", "t", "r", "i", "c", "t">>
COL_CATEGORY_RAW == <<"C", "a", "t", "e", "g", "o", "r", "i", "z", "a", "t", "i", "o", "n", " ", "(", "O", "E", "/", "C", "r", "i", "t", "i", "c", "a", "l", "/", "S", "e", "m", "i", "c", "r", "i", "t", "i", "c", "a", "l", "/", "S", "a", "f", "e", ")">>
COL_EXTRACTION_RAW == <<"A", "n", "n", "u", "a", "l", " ", "E", "x", "t", "r", "a", "c", "t", "a", "b", "l", "e", " ", "G", "r", "o", "u", "n", "d", " ", "W", "a", "t", "e", "r", " ", "R", "e", "s", "o", "u", "r", "c", "e", " ", "(", "H", "a", "m", ")">>
COL_PERCENTAGE_RAW == <<"P", "e", "r", "c", "e", "n", "t", "a", "g", "e">>

COL_STATE_NORM == normalize_column_name(COL_STATE_RAW)
COL_DISTRICT_NORM == normalize_column_name(COL_DISTRICT_RAW)
COL_CATEGORY_NORM == normalize_column_name(COL_CATEGORY_RAW)
COL_EXTRACTION_NORM == normalize_column_name(COL_EXTRACTION_RAW)
COL_PERCENTAGE_NORM == normalize_column_name(COL_PERCENTAGE_RAW)

(***************************************************************************)
(* 2. Load Data (app.py:46-75).  The module-level globals are handled as   *)
(* one record g, so that the request handlers below are operators of the   *)
(* globals they read.                                                      *)
(***************************************************************************)
\* The globals as assigned before the try block.
InitialGlobals ==
    [ingres_data_dict |-> <<>>,
     data_loaded |-> FALSE,
     LOADED_YEARS |-> <<>>,
     YEAR_REGEX_PATTERN |-> <<<<"2", "0", "2", "5">>, <<"2", "0", "2", "4">>, <<"2", "0", "2", "3">>, <<"2", "0", "2", "2">>, <<"2", "0", "2", "0">>>>,
     DEFAULT_YEAR |-> <<"2", "0", "2", "5">>]

\* pd.read_excel(path, sheet_name=DATA_SHEET_NAMES): the requested sheets in the
\* requested order; raises when the file or one of the sheets is missing.
read_excel(wb, sheet_names) ==
    LET has(name) == \E i \in 1..Len(wb.sheets) : wb.sheets[i].name = name
        sheet(name) == wb.sheets[CHOOSE i \in 1..Len(wb.sheets) : wb.sheets[i].name = name]
    IN IF ~wb.exists THEN [raised |-> "FileNotFoundError", sheets |-> <<>>]
       ELSE IF \E k \in 1..Len(sheet_names) : ~has(sheet_names[k])
       THEN [raised |-> "ValueError", sheets |-> <<>>]
       ELSE [raised |-> "",
             sheets |-> [k \in 1..Len(sheet_names) |->
                            [year |-> sheet_names[k], df |-> sheet(sheet_names[k]).table]]]

\* The loop of app.py:59-62 over the sheets read: every header is normalized and the
\* DataFrame stored under its year; a header that is no string raises and leaves
\* the sheets stored so far in the dictionary.
normalize_sheets(raw) ==
    LET bad(k) == \E c \in 1..Len(raw[k].df.columns) : raw[k].df.columns[c].t # "str"
        failed == {k \in 1..Len(raw) : bad(k)}
        stored == IF failed = {} THEN Len(raw)
                  ELSE (CHOOSE k \in failed : \A j \in failed : k <= j) - 1
    IN [raised |-> IF failed = {} THEN "" ELSE "AttributeError",
        dict |-> [k \in 1..stored |->
                    [year |-> raw[k].year,
                     df |-> [columns |-> [c \in 1..Len(raw[k].df.columns) |->
                                            normalize_column_name(raw[k].df.columns[c].s)],
                             rows |-> raw[k].df.rows]]]]

dict_keys(dict) == [i \in 1..Len(dict) |-> dict[i].year]

\* The globals after the try/except of app.py:53-75 has run on workbook wb.
LoadOutcome(wb) ==
    LET raw == read_excel(wb, DATA_SHEET_NAMES)
        done == normalize_sheets(raw.sheets)
        years == dict_keys(done.dict)
    IN IF raw.raised # "" THEN InitialGlobals
       ELSE IF done.raised # ""
       THEN [InitialGlobals EXCEPT !.ingres_data_dict = done.dict]
       ELSE [ingres_data_dict |-> done.dict,
             data_loaded |-> TRUE,
             LOADED_YEARS |-> years,
             YEAR_REGEX_PATTERN |-> years,
             DEFAULT_YEAR |-> IF years # <<>> THEN years[1] ELSE <<"2", "0", "2", "5">>]

(***************************************************************************)
(* 3. Chatbot logic (app.py:78-218).                                       *)
(***************************************************************************)
\* A. The FAQ table, in insertion order (app.py:80-85).
faq_responses ==
    <<[keyword |-> <<"w", "h", "a", "t", " ", "i", "s", " ", "i", "n", "g", "r", "e", "s">>,
       response |-> "INGRES is the India Ground Water Resource Estimation System, a GIS-based platform developed by CGWB and IIT Hyderabad for groundwater assessment."],
      [keyword |-> <<"c", "a", "t", "e", "g", "o", "r", "i", "z", "a", "t", "i", "o", "n", " ", "d", "e", "f", "i", "n", "i", "t", "i", "o", "n">>,
       response |-> "Groundwater units are categorized based on the ratio of annual extraction to recharge (e.g., Safe, Critical, Over Exploited)."],
      [keyword |-> <<"a", "n", "n", "u", "a", "l", " ", "e", "x", "t", "r", "a", "c", "t", "a", "b", "l", "e", " ", "r", "e", "s", "o", "u", "r", "c", "e">>,
       response |-> "This refers to the total volume of groundwater (in Ham) estimated to be available for withdrawal in a given year."],
      [keyword |-> <<"w", "h", "o", " ", "d", "e", "v", "e", "l", "o", "p", "e", "d", " ", "i", "n", "g", "r", "e", "s">>,
       response |-> "INGRES was developed by the Central Ground Water Board (CGWB) in collaboration with IIT Hyderabad."]>>

\* Python's None, where a string is expected.
None == "None"

\* app.py:87-92, on a query that is a string.
get_faq_response(query) ==
    LET query_lower == lower(query)
        hit == first_match(faq_responses,
                           [k \in 1..Len(faq_responses) |->
                                str_in(faq_responses[k].keyword, query_lower)])
    IN IF hit = <<>> THEN None ELSE hit[1].response

\* re.search with the \b of the pattern left out: a year label inside a longer word
\* matches too.
re_search_unanchored(pattern, text) ==
    LET hit(i) == first_match(pattern, [k \in 1..Len(pattern) |-> occurs_at(pattern[k], text, i)])
        places == {i \in 1..Len(text) : hit(i) # <<>>}
    IN IF places = {} THEN <<>>
       ELSE hit(CHOOSE i \in places : \A j \in places : i <= j)

\* re.search(YEAR_REGEX_PATTERN, query).group(0): the leftmost place of the text where
\* \b(y1|y2|...)\b matches, with the first alternative that matches there; <<>> for
\* no match.
re_search(pattern, text) ==
    LET hit(i) == first_match(pattern,
                     [k \in 1..Len(pattern) |-> regex_word_at(pattern[k], text, i, FALSE)])
        places == {i \in 1..Len(text) : hit(i) # <<>>}
    IN IF places = {} THEN <<>>
       ELSE hit(CHOOSE i \in places : \A j \in places : i <= j)

\* Series.str.contains(r'\b' + re.escape(unit_name) + r'\b', case=False, regex=True)
\* on one cell text.
str_contains_word(text, unit_name) ==
    \E i \in 1..(Len(text) + 1) : regex_word_at(unit_name, text, i, TRUE)

dict_has(dict, year) == \E i \in 1..Len(dict) : dict[i].year = year

dict_get(dict, year) == dict[CHOOSE i \in 1..Len(dict) : dict[i].year = year].df

\* app.py:130-131
known_states ==
    <<<<"A", "N", "D", "A", "M", "A", "N", " ", "A", "N", "D", " ", "N", "I", "C", "O", "B", "A", "R", " ", "I", "S", "L", "A", "N", "D", "S">>, <<"A", "N", "D", "H", "R", "A", " ", "P", "R", "A", "D", "E", "S", "H">>, <<"A", "R", "U", "N", "A", "C", "H", "A", "L", " ", "P", "R", "A", "D", "E", "S", "H">>, <<"A", "S", "S", "A", "M">>,
      <<"B", "I", "H", "A", "R">>, <<"C", "H", "A", "N", "D", "I", "G", "A", "R", "H">>, <<"C", "H", "H", "A", "T", "T", "I", "S", "G", "A", "R", "H">>, <<"D", "A", "D", "R", "A", " ", "A", "N", "D", " ", "N", "A", "G", "A", "R", " ", "H", "A", "V", "E", "L", "I">>,
      <<"D", "A", "M", "A", "N", " ", "A", "N", "D", " ", "D", "I", "U">>, <<"D", "E", "L", "H", "I">>, <<"G", "O", "A">>, <<"G", "U", "J", "A", "R", "A", "T">>, <<"H", "A", "R", "Y", "A", "N", "A">>, <<"H", "I", "M", "A", "C", "H", "A", "L", " ", "P", "R", "A", "D", "E", "S", "H">>,
      <<"J", "A", "M", "M", "U", " ", "A", "N", "D", " ", "K", "A", "S", "H", "M", "I", "R">>, <<"J", "H", "A", "R", "K", "H", "A", "N", "D">>, <<"K", "A", "R", "N", "A", "T", "A", "K", "A">>, <<"K", "E", "R", "A", "L", "A">>, <<"L", "A", "D", "A", "K", "H">>,
      <<"L", "A", "K", "S", "H", "D", "W", "E", "E", "P">>, <<"M", "A", "D", "H", "Y", "A", " ", "P", "R", "A", "D", "E", "S", "H">>, <<"M", "A", "H", "A", "R", "A", "S", "H", "T", "R", "A">>, <<"M", "A", "N", "I", "P", "U", "R">>, <<" ", "M", "E", "G", "H", "A", "L", "A", "Y", "A", " ">>,
      <<"M", "I", "Z", "O", "R", "A", "M">>, <<"N", "A", "G", "A", "L", "A", "N", "D">>, <<"O", "D", "I", "S", "H", "A">>, <<"P", "U", "D", "U", "C", "H", "E", "R", "R", "Y">>, <<"P", "U", "N", "J", "A", "B">>, <<"R", "A", "J", "A", "S", "T", "H", "A", "N">>,
      <<"S", "I", "K", "K", "I", "M">>, <<"T", "A", "M", "I", "L", "N", "A", "D", "U">>, <<"T", "E", "L", "A", "N", "G", "A", "N", "A">>, <<"T", "R", "I", "P", "U", "R", "A">>, <<"U", "T", "T", "A", "R", " ", "P", "R", "A", "D", "E", "S", "H">>,
      <<"U", "T", "T", "A", "R", "A", "K", "H", "A", "N", "D">>, <<"W", "E", "S", "T", " ", "B", "E", "N", "G", "A", "L">>, <<"U", "P">>, <<"M", "P">>, <<"A", "P">>, <<"T", "S">>>>

\* app.py:202
severity_order == <<<<"O", "v", "e", "r", " ", "E", "x", "p", "l", "o", "i", "t", "e", "d">>, <<"C", "r", "i", "t", "i", "c", "a", "l">>, <<"S", "e", "m", "i", " ", "C", "r", "i", "t", "i", "c", "a", "l">>, <<"S", "a", "f", "e">>>>

\* A figure of the summary: a value num/den, or the reason it is missing.
NoFigure == [t |-> "none", num |-> 0, den |-> 1]
Figure(num, den) == [t |-> "value", num |-> num, den |-> den]
ColumnNotFound == [t |-> "column_not_found", num |-> 0, den |-> 1]
DataUnavailable == [t |-> "unavailable", num |-> 0, den |-> 1]

\* What get_data_lookup_response returns or raises.  kind names the message:
\*   "year_not_available" app.py:105   "specify_unit" app.py:144
\*   "fallback" app.py:147             "unit_not_found" app.py:157
\*   "summary" app.py:211-217          "raised": an exception left the function.
\* target_year, years, unit_title, unit_type, parent_state, status, percentage,
\* extraction and count are the values formatted into the message; unit_name,
\* is_state_query and rows are the function's locals of the same names (rows: the
\* positions of the rows of unit_data in target_df).
NoLookup ==
    [kind |-> "none", raised |-> "", target_year |-> <<>>, years |-> <<>>,
     unit_name |-> <<>>, is_state_query |-> FALSE, rows |-> <<>>,
     unit_title |-> <<>>, unit_type |-> "", parent_state |-> <<>>, status |-> <<>>,
     percentage |-> NoFigure, extraction |-> NoFigure, count |-> 0]

\* 3. Extraction calculation (app.py:171-182) over the rows of unit_data.
total_extraction_str(target_df, rows) ==
    IF column_index(target_df, COL_EXTRACTION_NORM) = 0 THEN ColumnNotFound
    ELSE LET extraction_series == column(target_df, COL_EXTRACTION_NORM)
             numeric_extraction == [k \in 1..Len(rows) |-> to_numeric(extraction_series[rows[k]])]
             valid == SelectSeq(numeric_extraction, LAMBDA c : c.t = "num")
             total_extraction == seq_sum([k \in 1..Len(valid) |-> valid[k].n])
         IN IF total_extraction = 0 /\ valid = <<>> THEN DataUnavailable
            ELSE Figure(total_extraction, 1)

\* 4. Percentage calculation (app.py:185-198): the mean of the numeric cells, as
\* the exact fraction sum/count (printed times 100 with two decimals).
avg_percentage_str(target_df, rows) ==
    IF column_index(target_df, COL_PERCENTAGE_NORM) = 0 THEN ColumnNotFound
    ELSE LET percentage_series == column(target_df, COL_PERCENTAGE_NORM)
             numeric_percentage == [k \in 1..Len(rows) |-> to_numeric(percentage_series[rows[k]])]
             valid == SelectSeq(numeric_percentage, LAMBDA c : c.t = "num")
         IN IF valid = <<>> THEN DataUnavailable
            ELSE Figure(seq_sum([k \in 1..Len(valid) |-> valid[k].n]), Len(valid))

\* 5. Overall status (app.py:201-204), the category column being present.
overall_status(target_df, rows) ==
    LET category == column(target_df, COL_CATEGORY_NORM)
        present == SelectSeq([k \in 1..Len(rows) |-> category[rows[k]]], LAMBDA c : c.t # "nan")
        statuses == unique([k \in 1..Len(present) |-> astype_str(present[k])])
        hit == first_match(severity_order,
                   [i \in 1..Len(severity_order) |->
                        \E k \in 1..Len(statuses) :
                            str_in(lower(severity_order[i]), lower(statuses[k]))])
    IN IF hit = <<>> THEN <<"M", "i", "x", "e", "d", "/", "U", "n", "c", "a", "t", "e", "g", "o", "r", "i", "z", "e", "d">> ELSE hit[1]

\* ii.A (app.py:116-121): the longest district name of the year's table that is a
\* substring of the lower-cased query; <<>> for None.
district_unit_name(target_df, query_lower) ==
    IF column_index(target_df, COL_DISTRICT_NORM) = 0 THEN <<>>
    ELSE LET cells == column(target_df, COL_DISTRICT_NORM)
             all_districts == unique([r \in 1..Len(cells) |-> strip(astype_str(cells[r]))])
         IN first_match_longest(all_districts,
                [k \in 1..Len(all_districts) |-> str_in(lower(all_districts[k]), query_lower)])

\* ii.B (app.py:130-134): the longest known state name that is a substring of the
\* lower-cased query; <<>> for None.
state_unit_name(query_lower) ==
    first_match_longest(known_states,
        [k \in 1..Len(known_states) |-> str_in(lower(known_states[k]), query_lower)])

\* The result record while the year is known, and while the unit is known too.
LookupAt(target_year) == [NoLookup EXCEPT !.target_year = target_year]
LookupUnit(target_year, unit_name, is_state_query) ==
    [NoLookup EXCEPT !.target_year = target_year, !.unit_name = unit_name,
                     !.is_state_query = is_state_query]

\* iii.1 (app.py:154): the positions of the rows whose search column contains the
\* unit name as a word.
filter_rows(target_df, search_column_norm, unit_name) ==
    SelectSeq([r \in 1..Len(target_df.rows) |-> r],
              LAMBDA r : str_contains_word(
                            astype_str(column(target_df, search_column_norm)[r]), unit_name))

\* iii.2 (app.py:160-167): whether the parent state is looked up, and its cell.
wants_parent(target_df, is_state_query) ==
    ~is_state_query /\ column_index(target_df, COL_STATE_NORM) # 0

parent_state_raw(target_df, rows) == column(target_df, COL_STATE_NORM)[rows[1]]

\* iii-iv (app.py:156-218): the aggregation over the rows of unit_data and the
\* response.
aggregate(unit, target_df, rows) ==
    IF rows = <<>>
    THEN [unit EXCEPT !.kind = "unit_not_found", !.unit_title = title(unit.unit_name)]
    \* NaN.title()
    ELSE IF /\ wants_parent(target_df, unit.is_state_query)
            /\ parent_state_raw(target_df, rows).t # "str"
    THEN [unit EXCEPT !.kind = "raised", !.raised = "AttributeError", !.rows = rows]
    \* unit_data.get(COL_CATEGORY_NORM) is None
    ELSE IF column_index(target_df, COL_CATEGORY_NORM) = 0
    THEN [unit EXCEPT !.kind = "raised", !.raised = "AttributeError", !.rows = rows]
    ELSE [unit EXCEPT
            !.kind = "summary",
            !.rows = rows,
            !.unit_type = IF unit.is_state_query THEN "State Summary"
                          ELSE "District/Unit Summary",
            !.unit_title = title(unit.unit_name),
            !.parent_state = IF wants_parent(target_df, unit.is_state_query)
                             THEN <<title(parent_state_raw(target_df, rows).s)>>
                             ELSE <<>>,
            !.status = overall_status(target_df, rows),
            !.percentage = avg_percentage_str(target_df, rows),
            !.extraction = total_extraction_str(target_df, rows),
            !.count = Len(rows)]

\* iii (app.py:150-154): the lookup of a unit found in the query; target_df[column]
\* raises KeyError when the column is absent.
lookup_unit(unit, target_df, search_column_norm) ==
    IF column_index(target_df, search_column_norm) = 0
    THEN [unit EXCEPT !.kind = "raised", !.raised = "KeyError"]
    ELSE aggregate(unit, target_df, filter_rows(target_df, search_column_norm, unit.unit_name))

\* ii (app.py:111-147): the choice between the district matched, the state matched
\* and the fallback messages.  `if unit_name:` is false for None and for ''.
choose_unit(target_year, target_df, query_lower, district, state) ==
    IF district # <<>> /\ district[1] # <<>>
    THEN lookup_unit(LookupUnit(target_year, district[1], FALSE), target_df, COL_DISTRICT_NORM)
    ELSE IF state # <<>>
    THEN lookup_unit(LookupUnit(target_year, state[1], TRUE), target_df, COL_STATE_NORM)
    ELSE IF \/ str_in(<<"e", "x", "t", "r", "a", "c", "t", "i", "o", "n">>, query_lower)
            \/ str_in(<<"p", "e", "r", "c", "e", "n", "t", "a", "g", "e">>, query_lower)
            \/ str_in(<<"d", "a", "t", "a">>, query_lower)
    THEN [LookupAt(target_year) EXCEPT !.kind = "specify_unit"]
    ELSE [LookupAt(target_year) EXCEPT !.kind = "fallback"]

\* app.py:103-107: the table of the target year, or the year-not-available message.
lookup_in_year(g, query_lower, target_year) ==
    IF ~dict_has(g.ingres_data_dict, target_year)
    THEN [LookupAt(target_year) EXCEPT !.kind = "year_not_available",
                                       !.years = g.LOADED_YEARS]
    ELSE choose_unit(target_year, dict_get(g.ingres_data_dict, target_year), query_lower,
                     district_unit_name(dict_get(g.ingres_data_dict, target_year), query_lower),
                     state_unit_name(query_lower))

\* app.py:101
target_year_of(year_match, default_year) ==
    IF year_match # <<>> THEN year_match[1] ELSE default_year

\* B. Data lookup (app.py:96-218) on a query that is a string, reading globals g.
get_data_lookup_response(g, query) ==
    lookup_in_year(g, lower(query),
                   target_year_of(re_search(g.YEAR_REGEX_PATTERN, query), g.DEFAULT_YEAR))

(***************************************************************************)
(* 5. The chat endpoint (app.py:233-273).                                  *)
(*                                                                         *)
(* request.json is a JSON value: kind is its JSON type, n the value of a   *)
(* number (or 0/1 of a boolean), s the text of a string, items the         *)
(* elements of an array, keys the members of an object in order.  The      *)
(* elements and member values are cells: a string, a number or null.       *)
(***************************************************************************)
JsonNull == [kind |-> "null", n |-> 0, s |-> <<>>, items |-> <<>>, keys |-> <<>>]
JsonNumber(n) == [JsonNull EXCEPT !.kind = "number", !.n = n]
JsonString(s) == [JsonNull EXCEPT !.kind = "string", !.s = s]
JsonArray(items) == [JsonNull EXCEPT !.kind = "array", !.items = items]
JsonObject(keys) == [JsonNull EXCEPT !.kind = "object", !.keys = keys]

\* Python's truth value of request.json (`not request.json`).
truthy(json) ==
    CASE json.kind = "null" -> FALSE
      [] json.kind \in {"number", "bool"} -> json.n # 0
      [] json.kind = "string" -> json.s # <<>>
      [] json.kind = "array" -> json.items # <<>>
      [] json.kind = "object" -> json.keys # <<>>

\* Whether `'message' in request.json` raises TypeError (a number is not iterable).
in_raises(json) == json.kind \in {"number", "bool"}

\* `'message' in request.json`: a key of an object, an element of an array, a
\* substring of a string.
message_in(json) ==
    CASE json.kind = "object" -> \E k \in 1..Len(json.keys) : json.keys[k].key = <<"m", "e", "s", "s", "a", "g", "e">>
      [] json.kind = "array" -> \E k \in 1..Len(json.items) : json.items[k] = Str(<<"m", "e", "s", "s", "a", "g", "e">>)
      [] json.kind = "string" -> str_in(<<"m", "e", "s", "s", "a", "g", "e">>, json.s)
      [] OTHER -> FALSE

\* Whether request.json.get raises AttributeError (only a dict has .get).
get_raises(json) == json.kind # "object"

\* request.json.get('message', default) on an object.
json_get(json, default) ==
    IF message_in(json)
    THEN json.keys[CHOOSE k \in 1..Len(json.keys) : json.keys[k].key = <<"m", "e", "s", "s", "a", "g", "e">>].value
    ELSE default

\* What chat() does with one request.  kind names the response:
\*   "data_failed" app.py:240 (500)   "invalid_request" app.py:247 (400)
\*   "faq" app.py:255 (200)           "lookup" app.py:260 (200)
\*   "fatal" app.py:270-273 (500), the generic diagnostic naming the exception raised
\*   "escaped": an exception left chat(), raised names it.
\* text is the FAQ answer, lookup what get_data_lookup_response returned, and
\* lookup_invoked whether it was called.
NoOutcome ==
    [kind |-> "none", code |-> 0, text |-> None, lookup |-> NoLookup,
     lookup_invoked |-> FALSE, raised |-> ""]

\* The except block (app.py:263-273) handling exception exc.
chat_except(json, exc, invoked, lookup) ==
    IF get_raises(json)
    THEN [NoOutcome EXCEPT !.kind = "escaped", !.code = 500, !.raised = "AttributeError",
                           !.lookup_invoked = invoked, !.lookup = lookup]
    ELSE [NoOutcome EXCEPT !.kind = "fatal", !.code = 500, !.raised = exc,
                           !.lookup_invoked = invoked, !.lookup = lookup]

\* app.py:258-260: the answer of the data lookup, or the except block when it raised.
chat_lookup(json, lookup) ==
    IF lookup.kind = "raised" THEN chat_except(json, lookup.raised, TRUE, lookup)
    ELSE [NoOutcome EXCEPT !.kind = "lookup", !.code = 200, !.lookup = lookup,
                           !.lookup_invoked = TRUE]

\* app.py:252-260: the FAQ answer when there is one, else the data lookup.
chat_answer(g, json, user_query, response_text) ==
    IF response_text # None
    THEN [NoOutcome EXCEPT !.kind = "faq", !.code = 200, !.text = response_text]
    ELSE chat_lookup(json, get_data_lookup_response(g, user_query))

\* app.py:249-252: query.lower() raises on a message that is a number or None.
chat_query(g, json, user_query) ==
    IF user_query.t # "str" THEN chat_except(json, "AttributeError", FALSE, NoLookup)
    ELSE chat_answer(g, json, user_query.s, get_faq_response(user_query.s))

\* app.py:238-273 (what follows the sleep), reading globals g.
chat(g, json) ==
    IF ~g.data_loaded
    THEN [NoOutcome EXCEPT !.kind = "data_failed", !.code = 500]
    ELSE IF ~truthy(json)
    THEN [NoOutcome EXCEPT !.kind = "invalid_request", !.code = 400]
    ELSE IF in_raises(json)
    THEN chat_except(json, "TypeError", FALSE, NoLookup)
    ELSE IF ~message_in(json)
    THEN [NoOutcome EXCEPT !.kind = "invalid_request", !.code = 400]
    ELSE IF get_raises(json)
    THEN chat_except(json, "AttributeError", FALSE, NoLookup)
    ELSE chat_query(g, json, json_get(json, Str(<<>>)))

(***************************************************************************)
(* The workbooks the load is tried on.  A sheet holds its header row as    *)
(* found in the file (before normalization) and its data rows.             *)
(***************************************************************************)
Sheet(headers, rows) == [columns |-> [c \in 1..Len(headers) |-> headers[c]], rows |-> rows]

\* All five columns, headers as configured.
Table1 ==
    Sheet(<<Str(COL_STATE_RAW), Str(COL_DISTRICT_RAW), Str(COL_CATEGORY_RAW),
            Str(COL_EXTRACTION_RAW), Str(COL_PERCENTAGE_RAW)>>,
          <<<<Str(<<"G", "O", "A">>), Str(<<"N", "o", "r", "t", "h", " ", "G", "o", "a">>), Str(<<"S", "a", "f", "e">>), Num(100), Num(1000)>>,
            <<Str(<<"G", "O", "A">>), Str(<<"S", "o", "u", "t", "h", " ", "G", "o", "a">>), Str(<<"C", "r", "i", "t", "i", "c", "a", "l">>), Num(50), NaN>>,
            <<Str(<<"B", "I", "H", "A", "R">>), Str(<<"A", "u", "r", "a", "n", "g", "a", "b", "a", "d">>), Str(<<"S", "e", "m", "i", " ", "C", "r", "i", "t", "i", "c", "a", "l">>), Num(30), Num(2000)>>,
            <<Str(<<"M", "A", "H", "A", "R", "A", "S", "H", "T", "R", "A">>), Str(<<"A", "u", "r", "a", "n", "g", "a", "b", "a", "d">>), Str(<<"O", "v", "e", "r", " ", "E", "x", "p", "l", "o", "i", "t", "e", "d">>), Str(<<"x">>), Num(5000)>>,
            <<Str(<<"M", "E", "G", "H", "A", "L", "A", "Y", "A">>), Str(<<"E", "a", "s", "t", " ", "K", "h", "a", "s", "i", " ", "H", "i", "l", "l", "s">>), Str(<<"S", "a", "f", "e">>), Str(<<"7">>), Num(3000)>>>>)

\* All five columns, headers with stray blanks; another roster of districts.
Table2 ==
    Sheet(<<Str(<<" ", "S", "t", "a", "t", "e", " ">>), Str(<<"D", "i", "s", "t", "r", "i", "c", "t", " ">>), Str(<<"C", "a", "t", "e", "g", "o", "r", "i", "z", "a", "t", "i", "o", "n", " ", " ", "(", "O", "E", "/", "C", "r", "i", "t", "i", "c", "a", "l", "/", "S", "e", "m", "i", "c", "r", "i", "t", "i", "c", "a", "l", "/", "S", "a", "f", "e", ")">>),
            Str(<<"A", "n", "n", "u", "a", "l", " ", "E", "x", "t", "r", "a", "c", "t", "a", "b", "l", "e", " ", " ", "G", "r", "o", "u", "n", "d", " ", "W", "a", "t", "e", "r", " ", "R", "e", "s", "o", "u", "r", "c", "e", " ", "(", "H", "a", "m", ")", " ">>), Str(<<"P", "e", "r", "c", "e", "n", "t", "a", "g", "e">>)>>,
          <<<<Str(<<"N", "A", "G", "A", "L", "A", "N", "D">>), Str(<<"M", "o", "n">>), Str(<<"S", "e", "m", "i", " ", "C", "r", "i", "t", "i", "c", "a", "l">>), Num(10), Num(1000)>>,
            <<Str(<<"N", "A", "G", "A", "L", "A", "N", "D">>), Str(<<"M", "o", "n", " ", "E", "a", "s", "t">>), Str(<<"S", "a", "f", "e">>), Num(20), Num(2000)>>,
            <<Str(<<"C", "H", "A", "N", "D", "I", "G", "A", "R", "H">>), Str(<<"C", "h", "a", "n", "d", "i", "g", "a", "r", "h">>), Str(<<"S", "e", "m", "i", " ", "C", "r", "i", "t", "i", "c", "a", "l">>), Num(5), NaN>>,
            <<Str(<<"G", "o", "a">>), Str(<<" ", "N", "o", "r", "t", "h", " ", "G", "o", "a", " ">>), Str(<<"s", "a", "f", "e">>), Num(0), Num(0)>>>>)

\* No State column.
Table3 ==
    Sheet(<<Str(COL_DISTRICT_RAW), Str(COL_CATEGORY_RAW), Str(COL_EXTRACTION_RAW),
            Str(COL_PERCENTAGE_RAW)>>,
          <<<<Str(<<"N", "o", "r", "t", "h", " ", "G", "o", "a">>), Str(<<"S", "a", "f", "e">>), Num(1), Num(100)>>,
            <<Str(<<"M", "o", "n">>), Str(<<"C", "r", "i", "t", "i", "c", "a", "l">>), Num(2), Num(200)>>>>)

\* No Categorization and no Percentage column.
Table4 ==
    Sheet(<<Str(COL_STATE_RAW), Str(COL_DISTRICT_RAW), Str(COL_EXTRACTION_RAW)>>,
          <<<<Str(<<"G", "O", "A">>), Str(<<"N", "o", "r", "t", "h", " ", "G", "o", "a">>), Num(4)>>,
            <<Str(<<"U", "P">>), Str(<<"A", "g", "r", "a">>), Num(6)>>>>)

\* No District and no extraction column; categories outside the four labels.
Table5 ==
    Sheet(<<Str(COL_STATE_RAW), Str(COL_CATEGORY_RAW), Str(COL_PERCENTAGE_RAW)>>,
          <<<<Str(<<"G", "O", "A">>), NaN, Num(1000)>>,
            <<Str(<<"G", "O", "A">>), Str(<<"S", "a", "l", "i", "n", "e">>), Num(3000)>>,
            <<Str(<<"U", "T", "T", "A", "R", " ", "P", "R", "A", "D", "E", "S", "H">>), Str(<<"S", "a", "f", "e">>), NaN>>>>)

\* Empty cells: the state of a district's first row, a district, all extraction.
Table6 ==
    Sheet(<<Str(COL_STATE_RAW), Str(COL_DISTRICT_RAW), Str(COL_CATEGORY_RAW),
            Str(COL_EXTRACTION_RAW), Str(COL_PERCENTAGE_RAW)>>,
          <<<<NaN, Str(<<"M", "o", "n">>), Str(<<"S", "a", "f", "e">>), NaN, NaN>>,
            <<Str(<<"N", "A", "G", "A", "L", "A", "N", "D">>), Str(<<"M", "o", "n">>), Str(<<"C", "r", "i", "t", "i", "c", "a", "l">>), NaN, NaN>>,
            <<Str(<<"G", "O", "A">>), NaN, Str(<<"O", "v", "e", "r", " ", "E", "x", "p", "l", "o", "i", "t", "e", "d">>), Num(0), Num(0)>>>>)

\* A sheet whose third header is a number (pandas keeps it an int).
TableNumericHeader ==
    Sheet(<<Str(COL_STATE_RAW), Str(COL_DISTRICT_RAW), Num(2020)>>,
          <<<<Str(<<"G", "O", "A">>), Str(<<"N", "o", "r", "t", "h", " ", "G", "o", "a">>), Num(4)>>>>)

TablePool == <<Table1, Table2, Table3, Table4, Table5, Table6>>

\* The workbook whose k-th data sheet holds table k + shift of the pool (cyclically),
\* with a pivot sheet the load does not ask for.
ShiftedWorkbook(shift) ==
    [exists |-> TRUE,
     sheets |-> <<[name |-> <<"S", "u", "m", "m", "a", "r", "y">>, table |-> Table3]>> \o
                [k \in 1..Len(DATA_SHEET_NAMES) |->
                    [name |-> DATA_SHEET_NAMES[k],
                     table |-> TablePool[((k - 1 + shift) % Len(TablePool)) + 1]]]]

\* No file at EXCEL_FILE_PATH.
MissingWorkbook == [exists |-> FALSE, sheets |-> <<>>]

\* The sheet '2020' is missing.
IncompleteWorkbook ==
    [exists |-> TRUE,
     sheets |-> SubSeq(ShiftedWorkbook(0).sheets, 1, Len(DATA_SHEET_NAMES))]

\* The sheet '2023' has a numeric header.
NumericHeaderWorkbook ==
    [exists |-> TRUE,
     sheets |-> [k \in 1..Len(DATA_SHEET_NAMES) |->
                    [name |-> DATA_SHEET_NAMES[k],
                     table |-> IF k = 3 THEN TableNumericHeader ELSE Table1]]]

Workbooks ==
    {ShiftedWorkbook(shift) : shift \in 0..(Len(TablePool) - 1)}
        \cup {MissingWorkbook, IncompleteWorkbook, NumericHeaderWorkbook}

(***************************************************************************)
(* The request bodies sent to /chat.                                       *)
(***************************************************************************)
Message(text) == JsonObject(<<[key |-> <<"m", "e", "s", "s", "a", "g", "e">>, value |-> Str(text)]>>)

\* The query "extraction in S in Y".
ExtractionQuery(S, Y) == <<"e", "x", "t", "r", "a", "c", "t", "i", "o", "n", " ", "i", "n", " ">> \o S \o <<" ", "i", "n", " ">> \o Y

Queries ==
    {<<"w", "h", "o", " ", "d", "e", "v", "e", "l", "o", "p", "e", "d", " ", "i", "n", "g", "r", "e", "s">>,
     <<"W", "h", "a", "t", " ", "i", "s", " ", "I", "N", "G", "R", "E", "S", " ", "i", "n", " ", "G", "o", "a", " ", "2", "0", "2", "3">>,
     <<"w", "h", "o", " ", "d", "e", "v", "e", "l", "o", "p", "e", "d", " ", "i", "n", "g", "r", "e", "s", " ", "a", "n", "d", " ", "w", "h", "a", "t", " ", "i", "s", " ", "i", "n", "g", "r", "e", "s">>,
     ExtractionQuery(<<"G", "O", "A">>, <<"2", "0", "2", "5">>),
     ExtractionQuery(<<" ", "M", "E", "G", "H", "A", "L", "A", "Y", "A", " ">>, <<"2", "0", "2", "5">>),
     ExtractionQuery(<<"C", "H", "A", "N", "D", "I", "G", "A", "R", "H">>, <<"2", "0", "2", "4">>),
     <<"A", "u", "r", "a", "n", "g", "a", "b", "a", "d", " ", "2", "0", "2", "5">>,
     <<"s", "t", "a", "t", "u", "s", " ", "o", "f", " ", "M", "o", "n">>,
     <<"N", "o", "r", "t", "h", " ", "G", "o", "a", " ", "2", "0", "2", "4">>,
     <<"G", "o", "a", " ", "d", "a", "t", "a", " ", "f", "o", "r", " ", "2", "0", "1", "9">>,
     <<"G", "o", "a", " ", "2", "0", "2", "3", "a", "b", "c">>,
     <<"G", "o", "a", " ", "x", "2", "0", "2", "4", " ", "2", "0", "2", "2", " ", "2", "0", "2", "0">>,
     <<"g", "r", "o", "u", "n", "d", "w", "a", "t", "e", "r", " ", "s", "u", "p", "p", "l", "y">>,
     <<"e", "x", "t", "r", "a", "c", "t", "i", "o", "n", " ", "d", "a", "t", "a">>,
     <<>>}

Requests ==
    {Message(q) : q \in Queries}
        \cup {JsonNull, JsonNumber(5), JsonString(<<"m", "e", "s", "s", "a", "g", "e">>), JsonArray(<<Str(<<"m", "e", "s", "s", "a", "g", "e">>)>>),
              JsonObject(<<>>),
              JsonObject(<<[key |-> <<"t", "e", "x", "t">>, value |-> Str(<<"h", "e", "l", "l", "o">>)]>>),
              JsonObject(<<[key |-> <<"m", "e", "s", "s", "a", "g", "e">>, value |-> Num(5)]>>)}

(***************************************************************************)
(* The system: the import of app.py, then requests served by chat().       *)
(***************************************************************************)
\* The module-level globals as one record.
Globals ==
    [ingres_data_dict |-> ingres_data_dict,
     data_loaded |-> data_loaded,
     LOADED_YEARS |-> LOADED_YEARS,
     YEAR_REGEX_PATTERN |-> YEAR_REGEX_PATTERN,
     DEFAULT_YEAR |-> DEFAULT_YEAR]

\* No request completed yet.
NoRequest == [served |-> FALSE, json |-> JsonNull, outcome |-> NoOutcome]

\* app.py:47-51: the globals before the load, whatever workbook is on disk.
Init ==
    /\ pc = "import"
    /\ workbook \in Workbooks
    /\ ingres_data_dict = InitialGlobals.ingres_data_dict
    /\ data_loaded = InitialGlobals.data_loaded
    /\ LOADED_YEARS = InitialGlobals.LOADED_YEARS
    /\ YEAR_REGEX_PATTERN = InitialGlobals.YEAR_REGEX_PATTERN
    /\ DEFAULT_YEAR = InitialGlobals.DEFAULT_YEAR
    /\ inflight = {}
    /\ last = NoRequest

\* app.py:53-75: the one-time load as the module is imported.
LoadData ==
    /\ pc = "import"
    /\ LET g == LoadOutcome(workbook)
       IN /\ ingres_data_dict' = g.ingres_data_dict
          /\ data_loaded' = g.data_loaded
          /\ LOADED_YEARS' = g.LOADED_YEARS
          /\ YEAR_REGEX_PATTERN' = g.YEAR_REGEX_PATTERN
          /\ DEFAULT_YEAR' = g.DEFAULT_YEAR
    /\ pc' = "serving"
    /\ UNCHANGED <<workbook, inflight, last>>

\* app.py:233-236: a request enters chat() and sleeps.
ChatBegin(json) ==
    /\ pc = "serving"
    /\ Cardinality(inflight) < MaxInFlight
    /\ json \notin inflight
    /\ inflight' = inflight \cup {json}
    /\ UNCHANGED <<pc, workbook, globals, last>>

\* chat() keeping the year of the last lookup as the default of the next.
chat_globals_keep_year(g, json) ==
    LET outcome == chat(g, json)
    IN IF outcome.lookup_invoked /\ outcome.lookup.target_year # <<>>
       THEN [g EXCEPT !.DEFAULT_YEAR = outcome.lookup.target_year]
       ELSE g

\* The globals chat() leaves behind: it assigns none of them.
chat_globals(g, json) == g

\* app.py:238-273: the request wakes up and is answered.
ChatEnd(json) ==
    /\ pc = "serving"
    /\ json \in inflight
    /\ inflight' = inflight \ {json}
    /\ last' = [served |-> TRUE, json |-> json, outcome |-> chat(Globals, json)]
    /\ LET g == chat_globals(Globals, json)
       IN /\ ingres_data_dict' = g.ingres_data_dict
          /\ data_loaded' = g.data_loaded
          /\ LOADED_YEARS' = g.LOADED_YEARS
          /\ YEAR_REGEX_PATTERN' = g.YEAR_REGEX_PATTERN
          /\ DEFAULT_YEAR' = g.DEFAULT_YEAR
    /\ UNCHANGED <<pc, workbook>>

Next ==
    \/ LoadData
    \/ \E json \in Requests : ChatBegin(json)
    \/ \E json \in inflight : ChatEnd(json)

Spec == Init /\ [][Next]_vars

(***************************************************************************)
(* Properties.                                                             *)
(***************************************************************************)
\* Whether a request body is a JSON object whose 'message' is a string: a query.
IsQuery(json) == json.kind = "object" /\ message_in(json) /\ json_get(json, NaN).t = "str"

\* The text of the query completed last.
LastQuery == json_get(last.json, Str(<<>>)).s

\* A query was completed last.
QueryServed == last.served /\ IsQuery(last.json)

\* Whether the lower-cased query contains one of the FAQ keyword phrases.
HasFaqKeyword(q) == \E k \in 1..Len(faq_responses) : str_in(faq_responses[k].keyword, lower(q))

\* The answer of the first FAQ keyword, in table order, that the query contains.
FirstFaqAnswer(q) ==
    LET k == CHOOSE i \in 1..Len(faq_responses) :
                /\ str_in(faq_responses[i].keyword, lower(q))
                /\ \A j \in 1..(i - 1) : ~str_in(faq_responses[j].keyword, lower(q))
    IN faq_responses[k].response

\* The outcome was the FAQ answer of the query, the data lookup never invoked.
AnsweredByFaq ==
    /\ last.outcome.kind = "faq"
    /\ last.outcome.text = FirstFaqAnswer(LastQuery)
    /\ ~last.outcome.lookup_invoked

\* Whether a DataFrame has the five configured columns.
HasAllColumns(df) ==
    {COL_STATE_NORM, COL_DISTRICT_NORM, COL_CATEGORY_NORM, COL_EXTRACTION_NORM,
     COL_PERCENTAGE_NORM} \subseteq Range(df.columns)

\* Whether a DataFrame has the five columns and a state and a district in every row.
IsComplete(df) ==
    /\ HasAllColumns(df)
    /\ \A r \in 1..Len(df.rows) :
          /\ column(df, COL_STATE_NORM)[r].t = "str"
          /\ column(df, COL_DISTRICT_NORM)[r].t = "str"

\* The lookup of the query completed last read a complete table.
LookupOnCompleteTable ==
    /\ QueryServed
    /\ last.outcome.lookup_invoked
    /\ dict_has(ingres_data_dict, last.outcome.lookup.target_year)
    /\ IsComplete(dict_get(ingres_data_dict, last.outcome.lookup.target_year))

\* C1: every query whose lower-cased text contains an FAQ keyword phrase is answered
\* with the answer of the first matching keyword (table order), and
\* get_data_lookup_response is not invoked for it, whatever else the query names.
C1_FaqTakesPrecedence == (QueryServed /\ HasFaqKeyword(LastQuery)) => AnsweredByFaq

\* C2: when the load failed at startup (data_loaded is false), every data-lookup
\* query gets the fixed data-unavailable message and every query containing an FAQ
\* keyword still gets its FAQ answer.
C2_DegradedMode ==
    (pc = "serving" /\ ~data_loaded /\ QueryServed) =>
        IF HasFaqKeyword(LastQuery) THEN AnsweredByFaq
        ELSE last.outcome.kind = "data_failed"

\* C3: no fault escapes chat(): whatever JSON value the body is and whatever table is
\* loaded, the request resolves to a returned message, and a fault raised inside the
\* lookup is surfaced as the generic diagnostic message.
C3_NoFaultEscapes ==
    last.served =>
        /\ last.outcome.kind # "escaped"
        /\ (last.outcome.lookup.kind = "raised" => last.outcome.kind = "fatal")

\* The district names of df: the trimmed texts of its district cells.
DistrictNames(df) ==
    {strip(c.s) : c \in {x \in Range(column(df, COL_DISTRICT_NORM)) : x.t = "str"}} \ {<<>>}

\* The positions of the rows of df whose state is S (blanks and case aside).
StateRows(df, S) ==
    SelectSeq([r \in 1..Len(df.rows) |-> r],
              LAMBDA r : LET cell == column(df, COL_STATE_NORM)[r]
                         IN cell.t = "str" /\ lower(strip(cell.s)) = lower(strip(S)))

\* The sum of the extraction column over the rows given, entries that are no
\* number left out; with no number at all the figure is reported unavailable.
ExtractionSum(df, rows) ==
    LET cells == [k \in 1..Len(rows) |-> to_numeric(column(df, COL_EXTRACTION_NORM)[rows[k]])]
        valid == SelectSeq(cells, LAMBDA c : c.t = "num")
    IN IF valid = <<>> THEN DataUnavailable
       ELSE Figure(seq_sum([k \in 1..Len(valid) |-> valid[k].n]), 1)

\* C4: for every loaded year Y and every known state S with a row in Y's table, the
\* query "extraction in S in Y" yields a State Summary whose extraction figure is
\* the sum of the extraction column over exactly the rows of Y whose state is S.
\* Stated for the tables none of whose district names occurs in the query, where
\* the district lookup, which goes first, does not take the query over.
C4_StateExtractionSum ==
    \A k \in 1..Len(known_states), y \in 1..Len(ingres_data_dict) :
        LET S == known_states[k]
            Y == ingres_data_dict[y].year
            df == ingres_data_dict[y].df
        IN (/\ QueryServed
            /\ data_loaded
            /\ LastQuery = ExtractionQuery(S, Y)
            /\ IsComplete(df)
            /\ \A d \in DistrictNames(df) : ~str_in(lower(d), lower(LastQuery))
            /\ StateRows(df, S) # <<>>)
           => /\ last.outcome.kind = "lookup"
              /\ last.outcome.lookup.kind = "summary"
              /\ last.outcome.lookup.unit_type = "State Summary"
              /\ last.outcome.lookup.rows = StateRows(df, S)
              /\ last.outcome.lookup.extraction = ExtractionSum(df, StateRows(df, S))

\* The positions of the rows of df whose district is d.
DistrictRows(df, d) ==
    SelectSeq([r \in 1..Len(df.rows) |-> r],
              LAMBDA r : LET cell == column(df, COL_DISTRICT_NORM)[r]
                         IN cell.t = "str" /\ strip(cell.s) = d)

\* The states of the rows given.
StatesOf(df, rows) == {column(df, COL_STATE_NORM)[rows[k]] : k \in 1..Len(rows)}

\* C5: for every query without FAQ keyword that contains a district name of the
\* target year's table, the response is a District/Unit Summary, the aggregated
\* rows are exactly the rows of that district, they belong to one state, and the
\* parent-state qualifier is that state.
C5_DistrictSummary ==
    (/\ LookupOnCompleteTable
     /\ LET df == dict_get(ingres_data_dict, last.outcome.lookup.target_year)
        IN \E d \in DistrictNames(df) : str_in(lower(d), lower(LastQuery)))
    => LET df == dict_get(ingres_data_dict, last.outcome.lookup.target_year)
           look == last.outcome.lookup
       IN /\ last.outcome.kind = "lookup"
          /\ look.kind = "summary"
          /\ look.unit_type = "District/Unit Summary"
          /\ \E d \in DistrictNames(df) :
                /\ str_in(lower(d), lower(LastQuery))
                /\ look.rows = DistrictRows(df, d)
                /\ \E s \in StatesOf(df, look.rows) :
                      /\ StatesOf(df, look.rows) = {s}
                      /\ s.t = "str"
                      /\ look.parent_state = <<title(s.s)>>

\* The category values of the rows given, empty cells left out.
CategoriesOf(df, rows) ==
    {c.s : c \in {x \in {column(df, COL_CATEGORY_NORM)[rows[k]] : k \in 1..Len(rows)} : x.t = "str"}}

\* Whether a category value is the label (blanks and case aside).
IsLabel(c, label) == lower(strip(c)) = lower(label)

\* C6: the overall status is the most severe label, in the order Over Exploited >
\* Critical > Semi Critical > Safe, among the labels that occur as category values
\* of the matched rows, and "Mixed/Uncategorized" exactly when no category value
\* contains any of the four labels.
C6_MostSevereStatus ==
    (QueryServed /\ last.outcome.lookup.kind = "summary") =>
        LET look == last.outcome.lookup
            cats == CategoriesOf(dict_get(ingres_data_dict, look.target_year), look.rows)
            occurs(label) == \E c \in cats : IsLabel(c, label)
            contained(label) == \E c \in cats : str_in(lower(label), lower(c))
            worst == CHOOSE i \in 1..Len(severity_order) :
                        /\ occurs(severity_order[i])
                        /\ \A j \in 1..(i - 1) : ~occurs(severity_order[j])
        IN /\ (look.status = <<"M", "i", "x", "e", "d", "/", "U", "n", "c", "a", "t", "e", "g", "o", "r", "i", "z", "e", "d">>)
                    <=> (\A i \in 1..Len(severity_order) : ~contained(severity_order[i]))
           /\ (\A c \in cats : \/ \E i \in 1..Len(severity_order) : IsLabel(c, severity_order[i])
                               \/ \A i \in 1..Len(severity_order) :
                                        ~str_in(lower(severity_order[i]), lower(c)))
              /\ (\E i \in 1..Len(severity_order) : occurs(severity_order[i]))
              => look.status = severity_order[worst]

\* The four-digit tokens of a text: digits delimited by word boundaries.
YearTokens(q) ==
    {SubSeq(q, i, i + 3) : i \in {j \in 1..(Len(q) - 3) :
        /\ Range(SubSeq(q, j, j + 3)) \subseteq Range(Digits)
        /\ word_boundary(q, j)
        /\ word_boundary(q, j + 4)}}

\* C7: a query naming a year that is not loaded gets the year-not-available
\* message, which names that year and lists the loaded years; it is not answered
\* from the default year's data.
C7_YearNotAvailable ==
    (/\ QueryServed
     /\ data_loaded
     /\ ~HasFaqKeyword(LastQuery)
     /\ IsComplete(dict_get(ingres_data_dict, DEFAULT_YEAR))
     /\ YearTokens(LastQuery) # {}
     /\ YearTokens(LastQuery) \cap Range(LOADED_YEARS) = {})
    => /\ last.outcome.kind = "lookup"
       /\ last.outcome.lookup.kind = "year_not_available"
       /\ last.outcome.lookup.target_year \in YearTokens(LastQuery)
       /\ last.outcome.lookup.years = LOADED_YEARS

\* The places of a text where a loaded year label stands as a token.
YearPlaces(q) ==
    {i \in 1..Len(q) : \E y \in Range(LOADED_YEARS) :
        occurs_at(y, q, i) /\ word_boundary(q, i) /\ word_boundary(q, i + Len(y))}

\* The loaded year label standing at place i of a text.
YearAt(q, i) == CHOOSE y \in Range(LOADED_YEARS) : occurs_at(y, q, i)

\* C8: the target year of a lookup is the first loaded year (the first key of the
\* dataset) when the query holds no token equal to a loaded year label, and the
\* leftmost such token otherwise.
C8_TargetYear ==
    (QueryServed /\ last.outcome.lookup_invoked) =>
        LET places == YearPlaces(LastQuery)
        IN last.outcome.lookup.target_year =
              IF places = {} THEN ingres_data_dict[1].year
              ELSE YearAt(LastQuery, CHOOSE i \in places : \A j \in places : i <= j)

\* C8 witness: a lookup on a query that holds a year label only inside a longer
\* word took the first loaded year.
C8_Witness ==
    /\ QueryServed
    /\ last.outcome.lookup_invoked
    /\ YearPlaces(LastQuery) = {}
    /\ \E y \in Range(LOADED_YEARS) : str_in(y, LastQuery)
    /\ last.outcome.lookup.target_year = LOADED_YEARS[1]

\* C9: a district or state name is selected as the unit of a query only when it
\* stands in the query as a whole word, and the longest such name is selected.
C9_UnitIsWholeWord ==
    (LookupOnCompleteTable /\ last.outcome.lookup.unit_name # <<>>) =>
        LET look == last.outcome.lookup
            candidates == IF look.is_state_query THEN Range(known_states)
                          ELSE DistrictNames(dict_get(ingres_data_dict, look.target_year))
        IN /\ str_contains_word(LastQuery, look.unit_name)
           /\ \A c \in candidates :
                 str_contains_word(LastQuery, c) => Len(c) <= Len(look.unit_name)

=============================================================================
